---- MODULE Spec2Model ----
(***************************************************************************)
(* TeamForge project analysis: ParserService (manifest parsers) and        *)
(* AnalyzerService (analyze_project, detect_project_type, suggest_agents), *)
(* with the analyze_project command that exposes the analysis.             *)
(*                                                                         *)
(* Strings are TLA+ strings; where the code looks inside a string (sort    *)
(* order, substring search, trimming, lowercasing) the string is taken as  *)
(* its UTF-8 byte sequence, given by Bytes.                                *)
(***************************************************************************)
EXTENDS Integers, Sequences, FiniteSets, TLC

VARIABLES pc, fs, technologies, file_counts, project_type, result

vars == <<pc, fs, technologies, file_counts, project_type, result>>

----------------------------------------------------------------------------
(* Bounds of the model                                                     *)

MaxDeps == 2
MaxLines == 2
MaxPlain == 10
MaxSrc == 10
MaxDetectTechs == 3
MaxPairTechs == 1
MaxSuggestTechs == 3
MaxThreads == 2

----------------------------------------------------------------------------
(* Strings as byte sequences                                               *)

Bytes(s) ==
    CASE s = "react" -> <<114, 101, 97, 99, 116>>
      [] s = "vue" -> <<118, 117, 101>>
      [] s = "angular" -> <<97, 110, 103, 117, 108, 97, 114>>
      [] s = "svelte" -> <<115, 118, 101, 108, 116, 101>>
      [] s = "next" -> <<110, 101, 120, 116>>
      [] s = "nuxt" -> <<110, 117, 120, 116>>
      [] s = "express" -> <<101, 120, 112, 114, 101, 115, 115>>
      [] s = "fastify" -> <<102, 97, 115, 116, 105, 102, 121>>
      [] s = "koa" -> <<107, 111, 97>>
      [] s = "nestjs" -> <<110, 101, 115, 116, 106, 115>>
      [] s = "typescript" -> <<116, 121, 112, 101, 115, 99, 114, 105, 112, 116>>
      [] s = "vite" -> <<118, 105, 116, 101>>
      [] s = "webpack" -> <<119, 101, 98, 112, 97, 99, 107>>
      [] s = "jest" -> <<106, 101, 115, 116>>
      [] s = "vitest" -> <<118, 105, 116, 101, 115, 116>>
      [] s = "cypress" -> <<99, 121, 112, 114, 101, 115, 115>>
      [] s = "playwright" -> <<112, 108, 97, 121, 119, 114, 105, 103, 104, 116>>
      [] s = "node" -> <<110, 111, 100, 101>>
      [] s = "python" -> <<112, 121, 116, 104, 111, 110>>
      [] s = "django" -> <<100, 106, 97, 110, 103, 111>>
      [] s = "flask" -> <<102, 108, 97, 115, 107>>
      [] s = "fastapi" -> <<102, 97, 115, 116, 97, 112, 105>>
      [] s = "tornado" -> <<116, 111, 114, 110, 97, 100, 111>>
      [] s = "pyramid" -> <<112, 121, 114, 97, 109, 105, 100>>
      [] s = "pandas" -> <<112, 97, 110, 100, 97, 115>>
      [] s = "numpy" -> <<110, 117, 109, 112, 121>>
      [] s = "tensorflow" -> <<116, 101, 110, 115, 111, 114, 102, 108, 111, 119>>
      [] s = "pytorch" -> <<112, 121, 116, 111, 114, 99, 104>>
      [] s = "sklearn" -> <<115, 107, 108, 101, 97, 114, 110>>
      [] s = "scikit-learn" -> <<115, 99, 105, 107, 105, 116, 45, 108, 101, 97, 114, 110>>
      [] s = "rust" -> <<114, 117, 115, 116>>
      [] s = "actix" -> <<97, 99, 116, 105, 120>>
      [] s = "rocket" -> <<114, 111, 99, 107, 101, 116>>
      [] s = "axum" -> <<97, 120, 117, 109>>
      [] s = "warp" -> <<119, 97, 114, 112>>
      [] s = "tokio" -> <<116, 111, 107, 105, 111>>
      [] s = "async-std" -> <<97, 115, 121, 110, 99, 45, 115, 116, 100>>
      [] s = "tauri" -> <<116, 97, 117, 114, 105>>
      [] s = "actix-web" -> <<97, 99, 116, 105, 120, 45, 119, 101, 98>>
      [] s = "go" -> <<103, 111>>
      [] s = "gin" -> <<103, 105, 110>>
      [] s = "fiber" -> <<102, 105, 98, 101, 114>>
      [] s = "echo" -> <<101, 99, 104, 111>>
      [] s = "gorilla" -> <<103, 111, 114, 105, 108, 108, 97>>
      [] s = "gin-gonic/gin" -> <<103, 105, 110, 45, 103, 111, 110, 105, 99, 47, 103, 105, 110>>
      [] s = "gofiber/fiber" -> <<103, 111, 102, 105, 98, 101, 114, 47, 102, 105, 98, 101, 114>>
      [] s = "labstack/echo" -> <<108, 97, 98, 115, 116, 97, 99, 107, 47, 101, 99, 104, 111>>
      [] s = "gorilla/mux" -> <<103, 111, 114, 105, 108, 108, 97, 47, 109, 117, 120>>
      [] s = "react-native" -> <<114, 101, 97, 99, 116, 45, 110, 97, 116, 105, 118, 101>>
      [] s = "flutter" -> <<102, 108, 117, 116, 116, 101, 114>>
      [] s = "electron" -> <<101, 108, 101, 99, 116, 114, 111, 110>>
      [] s = "docker" -> <<100, 111, 99, 107, 101, 114>>
      [] s = "docker-compose" -> <<100, 111, 99, 107, 101, 114, 45, 99, 111, 109, 112, 111, 115, 101>>
      [] s = "postgres" -> <<112, 111, 115, 116, 103, 114, 101, 115>>
      [] s = "mysql" -> <<109, 121, 115, 113, 108>>
      [] s = "mongodb" -> <<109, 111, 110, 103, 111, 100, 98>>
      [] s = "pytest" -> <<112, 121, 116, 101, 115, 116>>
      [] s = "code-reviewer" -> <<99, 111, 100, 101, 45, 114, 101, 118, 105, 101, 119, 101, 114>>
      [] s = "test-engineer" -> <<116, 101, 115, 116, 45, 101, 110, 103, 105, 110, 101, 101, 114>>
      [] s = "fullstack-developer" -> <<102, 117, 108, 108, 115, 116, 97, 99, 107, 45, 100, 101, 118, 101, 108, 111, 112, 101, 114>>
      [] s = "api-designer" -> <<97, 112, 105, 45, 100, 101, 115, 105, 103, 110, 101, 114>>
      [] s = "frontend-developer" -> <<102, 114, 111, 110, 116, 101, 110, 100, 45, 100, 101, 118, 101, 108, 111, 112, 101, 114>>
      [] s = "backend-developer" -> <<98, 97, 99, 107, 101, 110, 100, 45, 100, 101, 118, 101, 108, 111, 112, 101, 114>>
      [] s = "database-designer" -> <<100, 97, 116, 97, 98, 97, 115, 101, 45, 100, 101, 115, 105, 103, 110, 101, 114>>
      [] s = "ux-designer" -> <<117, 120, 45, 100, 101, 115, 105, 103, 110, 101, 114>>
      [] s = "mobile-developer" -> <<109, 111, 98, 105, 108, 101, 45, 100, 101, 118, 101, 108, 111, 112, 101, 114>>
      [] s = "tech-writer" -> <<116, 101, 99, 104, 45, 119, 114, 105, 116, 101, 114>>
      [] s = "api-documenter" -> <<97, 112, 105, 45, 100, 111, 99, 117, 109, 101, 110, 116, 101, 114>>
      [] s = "docker-specialist" -> <<100, 111, 99, 107, 101, 114, 45, 115, 112, 101, 99, 105, 97, 108, 105, 115, 116>>
      [] s = "e2e-tester" -> <<101, 50, 101, 45, 116, 101, 115, 116, 101, 114>>
      [] s = "==" -> <<61, 61>>
      [] s = "Django==3.2" -> <<68, 106, 97, 110, 103, 111, 61, 61, 51, 46, 50>>
      [] s = "  Flask  " -> <<32, 32, 70, 108, 97, 115, 107, 32, 32>>
      [] s = "scikit-learn>=1.0" -> <<115, 99, 105, 107, 105, 116, 45, 108, 101, 97, 114, 110, 62, 61, 49, 46, 48>>
      [] s = "django-rest-framework" -> <<100, 106, 97, 110, 103, 111, 45, 114, 101, 115, 116, 45, 102, 114, 97, 109, 101, 119, 111, 114, 107>>
      [] s = "requests==2.31.0" -> <<114, 101, 113, 117, 101, 115, 116, 115, 61, 61, 50, 46, 51, 49, 46, 48>>
      [] s = "module example.com/app" -> <<109, 111, 100, 117, 108, 101, 32, 101, 120, 97, 109, 112, 108, 101, 46, 99, 111, 109, 47, 97, 112, 112>>
      [] s = "require github.com/gin-gonic/gin v1.9.1" -> <<114, 101, 113, 117, 105, 114, 101, 32, 103, 105, 116, 104, 117, 98, 46, 99, 111, 109, 47, 103, 105, 110, 45, 103, 111, 110, 105, 99, 47, 103, 105, 110, 32, 118, 49, 46, 57, 46, 49>>
      [] s = "require github.com/gorilla/mux v1.8.0" -> <<114, 101, 113, 117, 105, 114, 101, 32, 103, 105, 116, 104, 117, 98, 46, 99, 111, 109, 47, 103, 111, 114, 105, 108, 108, 97, 47, 109, 117, 120, 32, 118, 49, 46, 56, 46, 48>>
      [] s = "mylib==1.0 # needs flask" -> <<109, 121, 108, 105, 98, 61, 61, 49, 46, 48, 32, 35, 32, 110, 101, 101, 100, 115, 32, 102, 108, 97, 115, 107>>
      [] s = "NumPy==1.26" -> <<78, 117, 109, 80, 121, 61, 61, 49, 46, 50, 54>>
      [] s = "pytest==7.4" -> <<112, 121, 116, 101, 115, 116, 61, 61, 55, 46, 52>>
      [] s = "docker==6.1" -> <<100, 111, 99, 107, 101, 114, 61, 61, 54, 46, 49>>
      [] s = "pymongo" -> <<112, 121, 109, 111, 110, 103, 111>>
      [] s = "fastapi tornado pyramid pandas" -> <<102, 97, 115, 116, 97, 112, 105, 32, 116, 111, 114, 110, 97, 100, 111, 32, 112, 121, 114, 97, 109, 105, 100, 32, 112, 97, 110, 100, 97, 115>>
      [] s = "tensorflow pytorch" -> <<116, 101, 110, 115, 111, 114, 102, 108, 111, 119, 32, 112, 121, 116, 111, 114, 99, 104>>
      [] s = "require github.com/gofiber/fiber/v2 v2.50.0" -> <<114, 101, 113, 117, 105, 114, 101, 32, 103, 105, 116, 104, 117, 98, 46, 99, 111, 109, 47, 103, 111, 102, 105, 98, 101, 114, 47, 102, 105, 98, 101, 114, 47, 118, 50, 32, 118, 50, 46, 53, 48, 46, 48>>
      [] s = "require github.com/labstack/echo/v4 v4.11.0" -> <<114, 101, 113, 117, 105, 114, 101, 32, 103, 105, 116, 104, 117, 98, 46, 99, 111, 109, 47, 108, 97, 98, 115, 116, 97, 99, 107, 47, 101, 99, 104, 111, 47, 118, 52, 32, 118, 52, 46, 49, 49, 46, 48>>

Range(s) == {s[i] : i \in 1..Len(s)}

\* b occurs in a at offset i (0-based)
MatchAt(a, b, i) == \A j \in 1..Len(b) : a[i + j] = b[j]

\* str::contains on byte sequences
ContainsBytes(a, b) == \E i \in 0..(Len(a) - Len(b)) : MatchAt(a, b, i)

\* str::contains(&str) on two strings
Contains(t, pat) == ContainsBytes(Bytes(t), Bytes(pat))

\* Ord for str: lexicographic comparison of the bytes
LexLess(a, b) ==
    \/ \E i \in 1..Len(a) :
          /\ i <= Len(b)
          /\ a[i] < b[i]
          /\ \A j \in 1..(i - 1) : a[j] = b[j]
    \/ /\ Len(a) < Len(b)
       /\ \A j \in 1..Len(a) : a[j] = b[j]

StrLess(s, t) == LexLess(Bytes(s), Bytes(t))

RECURSIVE Insert(_, _)
Insert(x, s) ==
    IF s = <<>> THEN <<x>>
    ELSE IF StrLess(x, Head(s)) THEN <<x>> \o s
    ELSE <<Head(s)>> \o Insert(x, Tail(s))

\* Vec<String>::sort (stable; ascending byte order)
RECURSIVE sort(_)
sort(v) == IF v = <<>> THEN <<>> ELSE Insert(v[Len(v)], sort(SubSeq(v, 1, Len(v) - 1)))

\* no dedup at all
dedup_skipped(v) == v

\* Vec::dedup: removes consecutive repeated elements
RECURSIVE dedup(_)
dedup(v) ==
    IF Len(v) <= 1 THEN v
    ELSE IF v[1] = v[2] THEN dedup(Tail(v))
    ELSE <<v[1]>> \o dedup(Tail(v))

\* Result<T, E>
Ok(v) == [ok |-> TRUE, value |-> v]
Err(e) == [ok |-> FALSE, err |-> e]

----------------------------------------------------------------------------
(* ParserService                                                           *)

\* the same with a row for react-native
framework_map_with_react_native ==
    [k \in {"react", "react-native", "vue", "angular", "svelte", "next", "nuxt", "express",
            "fastify", "koa", "nest", "@nestjs/core", "typescript", "vite",
            "webpack", "jest", "vitest", "cypress", "playwright"} |->
        IF k \in {"nest", "@nestjs/core"} THEN "nestjs" ELSE k]

\* the dependency-name -> tag table of extract_frameworks_from_deps
framework_map ==
    [k \in {"react", "vue", "angular", "svelte", "next", "nuxt", "express",
            "fastify", "koa", "nest", "@nestjs/core", "typescript", "vite",
            "webpack", "jest", "vitest", "cypress", "playwright"} |->
        IF k \in {"nest", "@nestjs/core"} THEN "nestjs" ELSE k]

\* deps: the keys of a JSON object, in the order the map iterates them
RECURSIVE extract_frameworks_from_deps(_)
extract_frameworks_from_deps(deps) ==
    IF deps = <<>> THEN <<>>
    ELSE LET frameworks == extract_frameworks_from_deps(SubSeq(deps, 1, Len(deps) - 1))
             dep_name == deps[Len(deps)]
         IN IF dep_name \in DOMAIN framework_map
               /\ framework_map[dep_name] \notin Range(frameworks)
            THEN Append(frameworks, framework_map[dep_name])
            ELSE frameworks

\* package.get(name).and_then(|v| v.as_object()): Some only for an object
as_object(section) == section.kind = "object"

\* the same with node emitted for any scripts object
parse_package_json_any_scripts(file) ==
    IF file.status \in {"absent", "unreadable"} THEN Err("Failed to read package.json")
    ELSE IF file.status = "malformed" THEN Err("invalid JSON")
    ELSE LET package == file.value
             t1 == IF as_object(package.dependencies)
                   THEN extract_frameworks_from_deps(package.dependencies.keys)
                   ELSE <<>>
             t2 == IF as_object(package.devDependencies)
                   THEN t1 \o extract_frameworks_from_deps(package.devDependencies.keys)
                   ELSE t1
             t3 == IF as_object(package.scripts) THEN Append(t2, "node") ELSE t2
         IN Ok(t3)

parse_package_json(file) ==
    IF file.status \in {"absent", "unreadable"} THEN Err("Failed to read package.json")
    ELSE IF file.status = "malformed" THEN Err("invalid JSON")
    ELSE LET package == file.value
             t1 == IF as_object(package.dependencies)
                   THEN extract_frameworks_from_deps(package.dependencies.keys)
                   ELSE <<>>
             t2 == IF as_object(package.devDependencies)
                   THEN t1 \o extract_frameworks_from_deps(package.devDependencies.keys)
                   ELSE t1
             t3 == IF as_object(package.scripts)
                      /\ ("dev" \in Range(package.scripts.keys)
                          \/ "start" \in Range(package.scripts.keys))
                   THEN Append(t2, "node")
                   ELSE t2
         IN Ok(t3)

\* frameworks of the keyword table whose keyword occurs in hay, in table order
RECURSIVE MatchKeywords(_, _)
MatchKeywords(hay, keywords) ==
    IF keywords = <<>> THEN <<>>
    ELSE (IF ContainsBytes(hay, Bytes(keywords[1][1])) THEN <<keywords[1][2]>> ELSE <<>>)
         \o MatchKeywords(hay, Tail(keywords))

\* line.split("==").next(): the text before the first "=="
SplitFirst(line, sep) ==
    LET hits == {i \in 0..(Len(line) - Len(sep)) : MatchAt(line, sep, i)}
    IN IF hits = {} THEN line
       ELSE SubSeq(line, 1, CHOOSE i \in hits : \A j \in hits : i <= j)

IsSpace(b) == b \in {9, 10, 11, 12, 13, 32}

\* str::trim
Trim(s) ==
    LET keep == {i \in 1..Len(s) : ~IsSpace(s[i])}
    IN IF keep = {} THEN <<>>
       ELSE SubSeq(s, CHOOSE i \in keep : \A j \in keep : i <= j,
                      CHOOSE i \in keep : \A j \in keep : i >= j)

\* no lowercasing
ToLowercase_none(s) == s

\* str::to_lowercase on ASCII text
ToLowercase(s) == [i \in 1..Len(s) |-> IF s[i] \in 65..90 THEN s[i] + 32 ELSE s[i]]

requirements_keywords ==
    << <<"django", "django">>, <<"flask", "flask">>, <<"fastapi", "fastapi">>,
       <<"tornado", "tornado">>, <<"pyramid", "pyramid">>, <<"pandas", "pandas">>,
       <<"numpy", "numpy">>, <<"tensorflow", "tensorflow">>, <<"pytorch", "pytorch">>,
       <<"scikit-learn", "sklearn">> >>

RECURSIVE ScanRequirements(_)
ScanRequirements(lines) ==
    IF lines = <<>> THEN <<>>
    ELSE LET package == ToLowercase(Trim(SplitFirst(Bytes(lines[1]), Bytes("=="))))
         IN MatchKeywords(package, requirements_keywords) \o ScanRequirements(Tail(lines))

\* the same with a failed read taken as an empty file (unwrap_or_default)
parse_requirements_txt_read_or_default(file) ==
    IF file.status # "ok" THEN Ok(<<"python">>)
    ELSE Ok(<<"python">> \o ScanRequirements(file.value))

parse_requirements_txt(file) ==
    IF file.status # "ok" THEN Err("Failed to read requirements.txt")
    ELSE Ok(<<"python">> \o ScanRequirements(file.value))

cargo_keywords ==
    << <<"actix-web", "actix">>, <<"rocket", "rocket">>, <<"axum", "axum">>,
       <<"warp", "warp">>, <<"tokio", "tokio">>, <<"async-std", "async-std">>,
       <<"tauri", "tauri">> >>

\* frameworks of the keyword table whose keyword is a key of the table deps
RECURSIVE MatchKeys(_, _)
MatchKeys(deps, keywords) ==
    IF keywords = <<>> THEN <<>>
    ELSE (IF keywords[1][1] \in deps THEN <<keywords[1][2]>> ELSE <<>>)
         \o MatchKeys(deps, Tail(keywords))

parse_cargo_toml(file) ==
    IF file.status \in {"absent", "unreadable"} THEN Err("Failed to read Cargo.toml")
    ELSE IF file.status = "malformed" THEN Err("invalid TOML")
    ELSE LET cargo == file.value
         IN IF cargo.dependencies.kind = "table"
            THEN Ok(<<"rust">> \o MatchKeys(cargo.dependencies.keys, cargo_keywords))
            ELSE Ok(<<"rust">>)

go_keywords ==
    << <<"gin-gonic/gin", "gin">>, <<"gofiber/fiber", "fiber">>,
       <<"labstack/echo", "echo">>, <<"gorilla/mux", "gorilla">> >>

RECURSIVE ScanGoMod(_)
ScanGoMod(lines) ==
    IF lines = <<>> THEN <<>>
    ELSE MatchKeywords(Bytes(lines[1]), go_keywords) \o ScanGoMod(Tail(lines))

parse_go_mod(file) ==
    IF file.status # "ok" THEN Err("Failed to read go.mod")
    ELSE Ok(<<"go">> \o ScanGoMod(file.value))

----------------------------------------------------------------------------
(* AnalyzerService                                                         *)

ProjectType ==
    {"WebFullstack", "BackendApi", "Frontend", "Mobile", "Desktop", "Library", "Unknown"}

max_depth == 5
LibraryThreshold == 10

\* path.join(name).exists()
exists(dir, name) == dir.root = "dir" /\ dir[name].status # "absent"

\* the manifest files of the root as directory entries of the walk
ManifestEntries(dir) ==
    (IF dir.package_json.status # "absent"
        THEN << [kind |-> "file", depth |-> 1, extension |-> <<"json">>] >> ELSE <<>>)
    \o (IF dir.requirements_txt.status # "absent"
        THEN << [kind |-> "file", depth |-> 1, extension |-> <<"txt">>] >> ELSE <<>>)
    \o (IF dir.cargo_toml.status # "absent"
        THEN << [kind |-> "file", depth |-> 1, extension |-> <<"toml">>] >> ELSE <<>>)
    \o (IF dir.go_mod.status # "absent"
        THEN << [kind |-> "file", depth |-> 1, extension |-> <<"mod">>] >> ELSE <<>>)

\* the same without max_depth
WalkDir_no_max_depth(dir) ==
    IF dir.root = "missing"
    THEN << [kind |-> "error", depth |-> 0, extension |-> <<>>] >>
    ELSE IF dir.root = "file"
    THEN << [kind |-> "file", depth |-> 0, extension |-> dir.extension] >>
    ELSE << [kind |-> "dir", depth |-> 0, extension |-> <<>>] >>
         \o ManifestEntries(dir)
         \o dir.tree

\* WalkDir::new(path).max_depth(5).into_iter(): the root itself at depth 0,
\* then every entry at most max_depth levels below it; an entry that cannot
\* be read is yielded as an error
WalkDir(dir) ==
    IF dir.root = "missing"
    THEN << [kind |-> "error", depth |-> 0, extension |-> <<>>] >>
    ELSE IF dir.root = "file"
    THEN << [kind |-> "file", depth |-> 0, extension |-> dir.extension] >>
    ELSE << [kind |-> "dir", depth |-> 0, extension |-> <<>>] >>
         \o ManifestEntries(dir)
         \o SelectSeq(dir.tree, LAMBDA e : e.depth <= max_depth)

\* *file_counts.entry(ext_str).or_insert(0) += 1
Increment(counts, ext) ==
    IF ext \in DOMAIN counts
    THEN [counts EXCEPT ![ext] = @ + 1]
    ELSE [e \in DOMAIN counts \cup {ext} |-> IF e = ext THEN 1 ELSE counts[e]]

\* the extension histogram of the files of the walk
RECURSIVE CountExtensions(_)
CountExtensions(files) ==
    IF files = <<>> THEN <<>>
    ELSE LET counts == CountExtensions(SubSeq(files, 1, Len(files) - 1))
             entry == files[Len(files)]
         IN IF entry.extension # <<>> THEN Increment(counts, entry.extension[1]) ELSE counts

\* file_counts.values().sum()
RECURSIVE SumValues(_)
SumValues(counts) ==
    IF DOMAIN counts = {} THEN 0
    ELSE LET k == CHOOSE x \in DOMAIN counts : TRUE
         IN counts[k] + SumValues([e \in DOMAIN counts \ {k} |-> counts[e]])

\* the same without react in the list
has_frontend_no_react(techs) ==
    \E i \in 1..Len(techs) : techs[i] \in {"vue", "angular", "svelte", "next", "nuxt"}

has_frontend(techs) ==
    \E i \in 1..Len(techs) : techs[i] \in {"react", "vue", "angular", "svelte", "next", "nuxt"}

has_backend(techs) ==
    \E i \in 1..Len(techs) :
        techs[i] \in {"express", "fastify", "koa", "nestjs", "django", "flask", "fastapi",
                      "actix", "rocket"}

has_mobile(techs, counts) ==
    \/ \E i \in 1..Len(techs) : techs[i] \in {"react-native", "flutter"}
    \/ "swift" \in DOMAIN counts
    \/ "kotlin" \in DOMAIN counts

has_desktop(techs) == "tauri" \in Range(techs) \/ "electron" \in Range(techs)

\* the same with the Mobile and Desktop arms tried before the WebFullstack arm
detect_project_type_signals_first(techs, counts) ==
    IF has_mobile(techs, counts) THEN "Mobile"
    ELSE IF has_desktop(techs) THEN "Desktop"
    ELSE IF has_frontend(techs) /\ has_backend(techs) THEN "WebFullstack"
    ELSE IF has_backend(techs) THEN "BackendApi"
    ELSE IF has_frontend(techs) THEN "Frontend"
    ELSE IF SumValues(counts) < LibraryThreshold THEN "Library"
    ELSE "Unknown"

\* the same with the Desktop arm before the Mobile arm
detect_project_type_desktop_first(techs, counts) ==
    IF has_frontend(techs) /\ has_backend(techs) THEN "WebFullstack"
    ELSE IF has_backend(techs) /\ ~has_mobile(techs, counts) /\ ~has_desktop(techs)
    THEN "BackendApi"
    ELSE IF has_frontend(techs) /\ ~has_backend(techs) /\ ~has_mobile(techs, counts)
            /\ ~has_desktop(techs)
    THEN "Frontend"
    ELSE IF has_desktop(techs) THEN "Desktop"
    ELSE IF has_mobile(techs, counts) THEN "Mobile"
    ELSE IF SumValues(counts) < LibraryThreshold THEN "Library"
    ELSE "Unknown"

\* the same with the comparison of the Library test inverted
detect_project_type_library_inverted(techs, counts) ==
    IF has_frontend(techs) /\ has_backend(techs) THEN "WebFullstack"
    ELSE IF has_backend(techs) /\ ~has_mobile(techs, counts) /\ ~has_desktop(techs)
    THEN "BackendApi"
    ELSE IF has_frontend(techs) /\ ~has_backend(techs) /\ ~has_mobile(techs, counts)
            /\ ~has_desktop(techs)
    THEN "Frontend"
    ELSE IF has_mobile(techs, counts) THEN "Mobile"
    ELSE IF has_desktop(techs) THEN "Desktop"
    ELSE IF SumValues(counts) >= LibraryThreshold THEN "Library"
    ELSE "Unknown"

\* the match on (has_frontend, has_backend, has_mobile, has_desktop), arm by arm
detect_project_type(techs, counts) ==
    IF has_frontend(techs) /\ has_backend(techs) THEN "WebFullstack"
    ELSE IF has_backend(techs) /\ ~has_mobile(techs, counts) /\ ~has_desktop(techs)
    THEN "BackendApi"
    ELSE IF has_frontend(techs) /\ ~has_backend(techs) /\ ~has_mobile(techs, counts)
            /\ ~has_desktop(techs)
    THEN "Frontend"
    ELSE IF has_mobile(techs, counts) THEN "Mobile"
    ELSE IF has_desktop(techs) THEN "Desktop"
    ELSE IF SumValues(counts) < LibraryThreshold THEN "Library"
    ELSE "Unknown"

\* the agents of the match on project_type
TypeAgents(type) ==
    CASE type = "WebFullstack" ->
            <<"fullstack-developer", "api-designer", "frontend-developer", "backend-developer">>
      [] type = "BackendApi" -> <<"backend-developer", "api-designer", "database-designer">>
      [] type = "Frontend" -> <<"frontend-developer", "ux-designer">>
      [] type = "Mobile" -> <<"mobile-developer", "ux-designer">>
      [] type = "Desktop" -> <<"frontend-developer", "backend-developer">>
      [] type = "Library" -> <<"tech-writer", "api-documenter">>
      [] type = "Unknown" -> <<"fullstack-developer">>

\* the same with docker matched by equality
TechAgents_docker_exact(techs) ==
    (IF \E i \in 1..Len(techs) : techs[i] = "docker"
        THEN <<"docker-specialist">> ELSE <<>>)
    \o (IF \E i \in 1..Len(techs) : techs[i] \in {"postgres", "mysql", "mongodb"}
        THEN <<"database-designer">> ELSE <<>>)
    \o (IF \E i \in 1..Len(techs) :
              techs[i] \in {"jest", "vitest", "pytest", "cypress", "playwright"}
        THEN <<"e2e-tester">> ELSE <<>>)

\* the same without the database trigger, left to the BackendApi arm
TechAgents_no_database(techs) ==
    (IF \E i \in 1..Len(techs) : Contains(techs[i], "docker")
        THEN <<"docker-specialist">> ELSE <<>>)
    \o (IF \E i \in 1..Len(techs) :
              techs[i] \in {"jest", "vitest", "pytest", "cypress", "playwright"}
        THEN <<"e2e-tester">> ELSE <<>>)

\* the technology-specific agents
TechAgents(techs) ==
    (IF \E i \in 1..Len(techs) : Contains(techs[i], "docker")
        THEN <<"docker-specialist">> ELSE <<>>)
    \o (IF \E i \in 1..Len(techs) : techs[i] \in {"postgres", "mysql", "mongodb"}
        THEN <<"database-designer">> ELSE <<>>)
    \o (IF \E i \in 1..Len(techs) :
              techs[i] \in {"jest", "vitest", "pytest", "cypress", "playwright"}
        THEN <<"e2e-tester">> ELSE <<>>)

\* the same without the final dedup
suggest_agents_no_dedup(type, techs) ==
    LET agents == <<"code-reviewer", "test-engineer">> \o TypeAgents(type) \o TechAgents(techs)
    IN sort(agents)

suggest_agents(type, techs) ==
    LET agents == <<"code-reviewer", "test-engineer">> \o TypeAgents(type) \o TechAgents(techs)
    IN dedup(sort(agents))

\* the tags of one manifest: those of the parser when the file exists and
\* the parser returns Ok, none otherwise
IfLetOk(present, parsed) == IF present /\ parsed.ok THEN parsed.value ELSE <<>>

\* the same with total_files kept from the call before, not reset to 0
AnalyzerService_analyze_project_kept_total(path) ==
    LET techs ==
            IfLetOk(exists(path, "package_json"), parse_package_json(path.package_json))
            \o IfLetOk(exists(path, "requirements_txt"),
                       parse_requirements_txt(path.requirements_txt))
            \o IfLetOk(exists(path, "cargo_toml"), parse_cargo_toml(path.cargo_toml))
            \o IfLetOk(exists(path, "go_mod"), parse_go_mod(path.go_mod))
        files == SelectSeq(WalkDir(path), LAMBDA e : e.kind = "file")
        counts == CountExtensions(files)
        type == detect_project_type(techs, counts)
        before == IF result.ok THEN result.value.total_files ELSE 0
    IN Ok([project_type |-> type,
           detected_technologies |-> dedup(sort(techs)),
           file_counts |-> counts,
           total_files |-> before + Len(files),
           suggested_agents |-> suggest_agents(type, techs)])

\* AnalyzerService::analyze_project
AnalyzerService_analyze_project(path) ==
    LET techs ==
            IfLetOk(exists(path, "package_json"), parse_package_json(path.package_json))
            \o IfLetOk(exists(path, "requirements_txt"),
                       parse_requirements_txt(path.requirements_txt))
            \o IfLetOk(exists(path, "cargo_toml"), parse_cargo_toml(path.cargo_toml))
            \o IfLetOk(exists(path, "go_mod"), parse_go_mod(path.go_mod))
        files == SelectSeq(WalkDir(path), LAMBDA e : e.kind = "file")
        counts == CountExtensions(files)
        type == detect_project_type(techs, counts)
    IN Ok([project_type |-> type,
           detected_technologies |-> dedup(sort(techs)),
           file_counts |-> counts,
           total_files |-> Len(files),
           suggested_agents |-> suggest_agents(type, techs)])

----------------------------------------------------------------------------
(* The directories analysed and the arguments of the direct calls          *)

SeqsUpTo(S, n) == UNION {[1..k -> S] : k \in 0..n}

DistinctSeqsUpTo(S, n) ==
    {s \in SeqsUpTo(S, n) : \A i, j \in 1..Len(s) : i # j => s[i] # s[j]}

Repeat(x, n) == [i \in 1..n |-> x]

Absent == [status |-> "absent", value |-> <<>>]
Unreadable == [status |-> "unreadable", value |-> <<>>]
Malformed == [status |-> "malformed", value |-> <<>>]
Readable(v) == [status |-> "ok", value |-> v]

NoSection == [kind |-> "absent", keys |-> <<>>]
OtherSection == [kind |-> "other", keys |-> <<>>]

DepKeys == {"react", "express", "jest", "lodash"}

DepSections ==
    {NoSection, OtherSection}
    \cup {[kind |-> "object", keys |-> k] : k \in DistinctSeqsUpTo(DepKeys, MaxDeps)}

ScriptSections ==
    {NoSection, [kind |-> "object", keys |-> <<"dev">>], [kind |-> "object", keys |-> <<"test">>]}

PackageJsonFiles ==
    {Absent, Unreadable, Malformed}
    \cup {Readable([dependencies |-> d, devDependencies |-> v, scripts |-> s]) :
            d \in DepSections, v \in DepSections, s \in ScriptSections}

RequirementsLines == {"Django==3.2", "scikit-learn>=1.0", "requests==2.31.0"}

RequirementsFiles ==
    {Absent, Unreadable} \cup {Readable(l) : l \in SeqsUpTo(RequirementsLines, MaxLines)}

CargoFiles ==
    {Absent, Unreadable, Malformed, Readable([dependencies |-> NoSection])}
    \cup {Readable([dependencies |-> [kind |-> "table", keys |-> k]]) :
            k \in SUBSET {"actix-web", "tauri", "serde"}}

GoModLines == {"module example.com/app", "require github.com/gin-gonic/gin v1.9.1"}

GoModFiles ==
    {Absent, Unreadable} \cup {Readable(l) : l \in SeqsUpTo(GoModLines, MaxLines)}

File(depth, ext) == [kind |-> "file", depth |-> depth, extension |-> ext]

\* entries the walk does not count: a file below max_depth, a directory, a
\* symbolic link, an unreadable entry
Uncounted ==
    << File(max_depth + 1, <<"swift">>),
       [kind |-> "dir", depth |-> 1, extension |-> <<"d">>],
       [kind |-> "symlink", depth |-> 1, extension |-> <<"kotlin">>],
       [kind |-> "error", depth |-> 2, extension |-> <<>>] >>

\* plain files and source files, alone or between other entries
Trees ==
    {x[1] \o Repeat(File(1, <<>>), n) \o Repeat(File(2, <<"rs">>), m) \o x[2] :
        n \in 0..MaxPlain, m \in 0..MaxSrc,
        x \in {<< <<>>, <<>> >>,
               << Uncounted, <<>> >>,
               << <<>>, <<File(max_depth, <<"swift">>)>> >>,
               << Uncounted, <<File(1, <<"kotlin">>), File(3, <<"RS">>)>> >>}}

Dir(p, r, c, g, t) ==
    [root |-> "dir", extension |-> <<>>, package_json |-> p, requirements_txt |-> r,
     cargo_toml |-> c, go_mod |-> g, tree |-> t]

NotDir(root, ext) ==
    [root |-> root, extension |-> ext, package_json |-> Absent, requirements_txt |-> Absent,
     cargo_toml |-> Absent, go_mod |-> Absent, tree |-> <<>>]

\* roots that are not directories: a missing path, a regular file
InvalidRoots == {NotDir("missing", <<>>), NotDir("file", <<>>), NotDir("file", <<"txt">>)}

\* directories with one manifest, of every shape
ManifestDirs ==
    {Dir(p, Absent, Absent, Absent, <<>>) : p \in PackageJsonFiles}
    \cup {Dir(Absent, r, Absent, Absent, <<>>) : r \in RequirementsFiles}
    \cup {Dir(Absent, Absent, c, Absent, <<>>) : c \in CargoFiles}
    \cup {Dir(Absent, Absent, Absent, g, <<>>) : g \in GoModFiles}

ReactPackage ==
    Readable([dependencies |-> [kind |-> "object", keys |-> <<"express", "react">>],
              devDependencies |-> [kind |-> "object", keys |-> <<"jest", "react">>],
              scripts |-> [kind |-> "object", keys |-> <<"start">>]])

GinGoMod == Readable(<<"module example.com/app", "require github.com/gin-gonic/gin v1.9.1">>)

\* directories with up to four manifests, each missing, unusable or usable
MixedDirs ==
    {Dir(p, r, c, g, <<>>) :
        p \in {Absent, Unreadable, Malformed, ReactPackage},
        r \in {Absent, Unreadable, Readable(<<"Django==3.2", "django-rest-framework">>)},
        c \in {Absent, Unreadable, Malformed,
               Readable([dependencies |-> [kind |-> "table", keys |-> {"tauri", "rocket"}]])},
        g \in {Absent, Unreadable, GinGoMod}}

\* directories of every tree, with a few manifests
TreeDirs ==
    {Dir(p, Absent, Absent, g, t) :
        p \in {Absent, ReactPackage}, g \in {Absent, GinGoMod}, t \in Trees}

ReactOnlyPackage ==
    Readable([dependencies |-> [kind |-> "object", keys |-> <<"lodash", "react">>],
              devDependencies |-> NoSection,
              scripts |-> [kind |-> "object", keys |-> <<"test">>]])

TauriCargo == Readable([dependencies |-> [kind |-> "table", keys |-> {"serde", "tauri"}]])

\* a React front end of every tree, alone or beside a Tauri crate
ReactDirs ==
    {Dir(ReactOnlyPackage, Absent, c, Absent, t) : c \in {Absent, TauriCargo}, t \in Trees}

\* manifests that name every row of every table, and names outside the tables
EveryKeyPackage ==
    Readable([dependencies |->
                  [kind |-> "object",
                   keys |-> <<"@nestjs/core", "angular", "electron", "express", "fastify",
                              "koa", "mongodb", "mysql", "nest", "next", "nuxt", "pg",
                              "react", "react-native", "svelte", "vue">>],
              devDependencies |->
                  [kind |-> "object",
                   keys |-> <<"cypress", "docker-compose", "jest", "playwright", "pytest",
                              "typescript", "vite", "vitest", "webpack">>],
              scripts |-> [kind |-> "object", keys |-> <<"build", "start">>]])

EveryKeywordRequirements ==
    Readable(<<"Django==3.2", "  Flask  ", "fastapi tornado pyramid pandas", "NumPy==1.26",
               "tensorflow pytorch", "scikit-learn>=1.0", "pytest==7.4", "docker==6.1",
               "pymongo">>)

EveryKeyCargo ==
    Readable([dependencies |->
                  [kind |-> "table",
                   keys |-> {"actix-web", "rocket", "axum", "warp", "tokio", "async-std",
                             "tauri", "flutter", "postgres", "serde"}]])

EveryKeywordGoMod ==
    Readable(<<"module example.com/app",
               "require github.com/gin-gonic/gin v1.9.1",
               "require github.com/gofiber/fiber/v2 v2.50.0",
               "require github.com/labstack/echo/v4 v4.11.0",
               "require github.com/gorilla/mux v1.8.0">>)

VocabularyDirs ==
    {Dir(p, r, c, g, t) :
        p \in {Absent, EveryKeyPackage}, r \in {Absent, EveryKeywordRequirements},
        c \in {Absent, EveryKeyCargo}, g \in {Absent, EveryKeywordGoMod},
        t \in {<<>>, <<File(1, <<"swift">>)>>}}

Paths ==
    InvalidRoots \cup ManifestDirs \cup MixedDirs \cup TreeDirs \cup ReactDirs
    \cup VocabularyDirs

NoPath == NotDir("none", <<>>)
NoResult == [ok |-> FALSE, err |-> "no call"]

----------------------------------------------------------------------------
(* The analyze_project command on a path                                   *)

Init ==
    /\ pc = "analyze_project"
    /\ fs \in Paths
    /\ technologies = <<>>
    /\ file_counts = <<>>
    /\ project_type = "none"
    /\ result = NoResult

\* the Result the command returns for the Result of the service
ProjectAnalysisResult(analysis) ==
    IF analysis.ok
    THEN Ok([project_type |-> analysis.value.project_type,
             detected_technologies |-> analysis.value.detected_technologies,
             file_counts |-> analysis.value.file_counts,
             total_files |-> analysis.value.total_files,
             suggested_agents |-> analysis.value.suggested_agents])
    ELSE Err(analysis.err)

\* commands::project_commands::analyze_project
analyze_project ==
    /\ pc = "analyze_project"
    /\ result' = ProjectAnalysisResult(AnalyzerService_analyze_project(fs))
    /\ pc' = "done"
    /\ UNCHANGED <<fs, technologies, file_counts, project_type>>

Next == analyze_project

Spec == Init /\ [][Next]_vars

\* the command called a second time on the same, unchanged path
analyze_project_again ==
    /\ pc = "done"
    /\ result' = ProjectAnalysisResult(AnalyzerService_analyze_project(fs))
    /\ pc' = "repeated"
    /\ UNCHANGED <<fs, technologies, file_counts, project_type>>

NextRepeat == analyze_project \/ analyze_project_again

SpecRepeat == Init /\ [][NextRepeat]_vars

----------------------------------------------------------------------------
(* detect_project_type called on a technology list and a histogram         *)

FrontendTags == {"react", "vue", "angular", "svelte", "next", "nuxt"}
BackendTags ==
    {"express", "fastify", "koa", "nestjs", "django", "flask", "fastapi", "actix", "rocket"}
MobileTags == {"react-native", "flutter"}
DesktopTags == {"tauri", "electron"}

\* one or two tags of each kind, and all of them
SomeDetectTags == {"react", "express", "rocket", "flutter", "tauri", "electron", "go"}
AllDetectTags == FrontendTags \cup BackendTags \cup MobileTags \cup DesktopTags \cup {"go", "jest"}

DetectTechnologies ==
    SeqsUpTo(SomeDetectTags, MaxDetectTechs) \cup SeqsUpTo(AllDetectTags, MaxPairTechs)

Histogram(keys, n) ==
    [e \in keys \cup (IF n > 0 THEN {"rs"} ELSE {}) |-> IF e = "rs" THEN n ELSE 1]

Histograms ==
    {Histogram(k, n) : k \in SUBSET {"swift", "kotlin", "kt"},
                       n \in {0, LibraryThreshold - 3, LibraryThreshold - 2, LibraryThreshold}}

InitDetect ==
    /\ pc = "detect_project_type"
    /\ fs = NoPath
    /\ technologies \in DetectTechnologies
    /\ file_counts \in Histograms
    /\ project_type = "none"
    /\ result = NoResult

call_detect_project_type ==
    /\ pc = "detect_project_type"
    /\ result' = Ok(detect_project_type(technologies, file_counts))
    /\ pc' = "done"
    /\ UNCHANGED <<fs, technologies, file_counts, project_type>>

SpecDetect == InitDetect /\ [][call_detect_project_type]_vars

----------------------------------------------------------------------------
(* suggest_agents called on a project type and a technology list           *)

\* a few tags of each trigger, and all the tags the triggers name
SomeSuggestTags ==
    {"docker", "docker-compose", "postgres", "mongodb", "jest", "react", "express"}
AllSuggestTags ==
    {"docker", "docker-compose", "postgres", "mysql", "mongodb", "jest", "vitest", "pytest",
     "cypress", "playwright", "react", "express", "go"}

SuggestTechnologies ==
    SeqsUpTo(SomeSuggestTags, MaxSuggestTechs) \cup SeqsUpTo(AllSuggestTags, MaxPairTechs)

InitSuggest ==
    /\ pc = "suggest_agents"
    /\ fs = NoPath
    /\ technologies \in SuggestTechnologies
    /\ file_counts = <<>>
    /\ project_type \in ProjectType
    /\ result = NoResult

call_suggest_agents ==
    /\ pc = "suggest_agents"
    /\ result' = Ok(suggest_agents(project_type, technologies))
    /\ pc' = "done"
    /\ UNCHANGED <<fs, technologies, file_counts, project_type>>

SpecSuggest == InitSuggest /\ [][call_suggest_agents]_vars


----------------------------------------------------------------------------
(* The parsers of ParserService called on one manifest file                *)

Object(keys) == [kind |-> "object", keys |-> keys]

\* table keys, and names that only resemble one
ParseDepKeys == {"react", "@nestjs/core", "nest", "react-dom", "React", "lodash"}

ParsePackageJsons ==
    {Absent, Unreadable, Malformed}
    \cup {Readable([dependencies |-> d, devDependencies |-> v, scripts |-> s]) :
            d \in {NoSection, OtherSection}
                  \cup {Object(k) : k \in DistinctSeqsUpTo(ParseDepKeys, MaxDeps)},
            v \in {NoSection, OtherSection, Object(<<"jest", "react">>),
                   Object(<<"Vue", "vitest-mock">>)},
            s \in {NoSection, OtherSection, Object(<<>>), Object(<<"dev">>),
                   Object(<<"start">>), Object(<<"test">>), Object(<<"build", "start">>),
                   Object(<<"Dev", "starter">>)}}

ParseRequirementsLines ==
    {"Django==3.2", "django-rest-framework", "scikit-learn>=1.0", "requests==2.31.0",
     "  Flask  ", "mylib==1.0 # needs flask", "NumPy==1.26"}

ParseRequirementsFiles ==
    {Absent, Unreadable} \cup {Readable(l) : l \in SeqsUpTo(ParseRequirementsLines, MaxLines)}

InitParse ==
    /\ \/ /\ pc = "parse_package_json"
          /\ fs \in {Dir(p, Absent, Absent, Absent, <<>>) : p \in ParsePackageJsons}
       \/ /\ pc = "parse_requirements_txt"
          /\ fs \in {Dir(Absent, r, Absent, Absent, <<>>) : r \in ParseRequirementsFiles}
       \/ /\ pc = "parse_cargo_toml"
          /\ fs \in {Dir(Absent, Absent, c, Absent, <<>>) : c \in CargoFiles}
       \/ /\ pc = "parse_go_mod"
          /\ fs \in {Dir(Absent, Absent, Absent, g, <<>>) : g \in GoModFiles}
    /\ technologies = <<>>
    /\ file_counts = <<>>
    /\ project_type = "none"
    /\ result = NoResult

call_parse_package_json ==
    /\ pc = "parse_package_json"
    /\ result' = parse_package_json(fs.package_json)
    /\ pc' = "parsed package.json"
    /\ UNCHANGED <<fs, technologies, file_counts, project_type>>

call_parse_requirements_txt ==
    /\ pc = "parse_requirements_txt"
    /\ result' = parse_requirements_txt(fs.requirements_txt)
    /\ pc' = "parsed requirements.txt"
    /\ UNCHANGED <<fs, technologies, file_counts, project_type>>

call_parse_cargo_toml ==
    /\ pc = "parse_cargo_toml"
    /\ result' = parse_cargo_toml(fs.cargo_toml)
    /\ pc' = "parsed Cargo.toml"
    /\ UNCHANGED <<fs, technologies, file_counts, project_type>>

call_parse_go_mod ==
    /\ pc = "parse_go_mod"
    /\ result' = parse_go_mod(fs.go_mod)
    /\ pc' = "parsed go.mod"
    /\ UNCHANGED <<fs, technologies, file_counts, project_type>>

NextParse ==
    \/ call_parse_package_json
    \/ call_parse_requirements_txt
    \/ call_parse_cargo_toml
    \/ call_parse_go_mod

SpecParse == InitParse /\ [][NextParse]_vars

----------------------------------------------------------------------------
(* Analyses running at the same time, each in its own invocation of the    *)
(* command: here every variable maps an invocation to its own path, its    *)
(* position in analyze_project, its locals and its result                  *)

Threads == 1..MaxThreads

ConcurrentPaths ==
    {NotDir("missing", <<>>),
     Dir(ReactPackage, Readable(<<"Django==3.2", "django-rest-framework">>), TauriCargo,
         GinGoMod, <<File(1, <<>>)>>),
     Dir(ReactOnlyPackage, Absent, Malformed, Absent, Repeat(File(2, <<"rs">>), LibraryThreshold)),
     Dir(Absent, Unreadable, Absent, GinGoMod, Uncounted \o <<File(max_depth, <<"swift">>)>>),
     Dir(Absent, Absent, Absent, Absent, Repeat(File(1, <<>>), LibraryThreshold))}

InitConcurrent ==
    /\ pc = [t \in Threads |-> "package_json"]
    /\ fs \in [Threads -> ConcurrentPaths]
    /\ technologies = [t \in Threads |-> <<>>]
    /\ file_counts = [t \in Threads |-> [file_counts |-> <<>>, total_files |-> 0]]
    /\ project_type = [t \in Threads |-> "none"]
    /\ result = [t \in Threads |-> NoResult]

\* a Vec shared by the invocations
Extend_shared(locals, t, techs) == [u \in DOMAIN locals |-> locals[u] \o techs]

\* technologies.extend(techs) on the Vec of invocation t
Extend(locals, t, techs) == [locals EXCEPT ![t] = @ \o techs]

\* one manifest probe of invocation t
Probe(t, name, parsed, next) ==
    /\ pc[t] = name
    /\ technologies' = Extend(technologies, t, IfLetOk(exists(fs[t], name), parsed))
    /\ pc' = [pc EXCEPT ![t] = next]
    /\ UNCHANGED <<fs, file_counts, project_type, result>>

probe_package_json(t) ==
    Probe(t, "package_json", parse_package_json(fs[t].package_json), "requirements_txt")

probe_requirements_txt(t) ==
    Probe(t, "requirements_txt", parse_requirements_txt(fs[t].requirements_txt), "cargo_toml")

probe_cargo_toml(t) ==
    Probe(t, "cargo_toml", parse_cargo_toml(fs[t].cargo_toml), "go_mod")

probe_go_mod(t) == Probe(t, "go_mod", parse_go_mod(fs[t].go_mod), "walk")

\* the walk loop of invocation t
walk(t) ==
    /\ pc[t] = "walk"
    /\ LET files == SelectSeq(WalkDir(fs[t]), LAMBDA e : e.kind = "file")
       IN file_counts' = [file_counts EXCEPT ![t] =
                             [file_counts |-> CountExtensions(files),
                              total_files |-> @.total_files + Len(files)]]
    /\ pc' = [pc EXCEPT ![t] = "detect_project_type"]
    /\ UNCHANGED <<fs, technologies, project_type, result>>

classify(t) ==
    /\ pc[t] = "detect_project_type"
    /\ project_type' = [project_type EXCEPT ![t] =
                           detect_project_type(technologies[t], file_counts[t].file_counts)]
    /\ pc' = [pc EXCEPT ![t] = "suggest_agents"]
    /\ UNCHANGED <<fs, technologies, file_counts, result>>

\* suggestions, sort and dedup, and the return through the command
finish(t) ==
    /\ pc[t] = "suggest_agents"
    /\ result' = [result EXCEPT ![t] =
                     ProjectAnalysisResult(
                         Ok([project_type |-> project_type[t],
                             detected_technologies |-> dedup(sort(technologies[t])),
                             file_counts |-> file_counts[t].file_counts,
                             total_files |-> file_counts[t].total_files,
                             suggested_agents |->
                                 suggest_agents(project_type[t], technologies[t])]))]
    /\ pc' = [pc EXCEPT ![t] = "done"]
    /\ UNCHANGED <<fs, technologies, file_counts, project_type>>

NextConcurrent ==
    \E t \in Threads :
        \/ probe_package_json(t)
        \/ probe_requirements_txt(t)
        \/ probe_cargo_toml(t)
        \/ probe_go_mod(t)
        \/ walk(t)
        \/ classify(t)
        \/ finish(t)

SpecConcurrent == InitConcurrent /\ [][NextConcurrent]_vars

----------------------------------------------------------------------------
(* Properties                                                              *)

Returned == pc = "done" /\ result.ok

Frontend(techs) == Range(techs) \cap FrontendTags # {}
Backend(techs) == Range(techs) \cap BackendTags # {}
Mobile(techs, counts) ==
    Range(techs) \cap MobileTags # {} \/ DOMAIN counts \cap {"swift", "kotlin"} # {}
Desktop(techs) == Range(techs) \cap DesktopTags # {}

\* C1: analyze_project on a root that does not exist, or that is not a
\* directory, returns an error and no analysis result.
C1_InvalidRootFails ==
    (pc = "done" /\ fs.root \in {"missing", "file"}) => ~result.ok

\* C2: whenever the technology list holds a frontend tag and a backend tag,
\* detect_project_type returns WebFullstack, whatever the mobile and desktop
\* signals.
C2_PriorityLaw ==
    (pc = "done" /\ Frontend(technologies) /\ Backend(technologies))
        => result = Ok("WebFullstack")

C2_Witness ==
    /\ pc = "done"
    /\ Frontend(technologies) /\ Backend(technologies)
    /\ Mobile(technologies, file_counts) /\ Desktop(technologies)
    /\ result = Ok("WebFullstack")

\* C3: when the signals are not frontend-and-backend, backend without mobile
\* and desktop gives BackendApi, frontend without backend, mobile and desktop
\* gives Frontend, otherwise a mobile signal gives Mobile (also with a desktop
\* signal), otherwise a desktop signal gives Desktop.
C3_OrderedTable ==
    LET F == Frontend(technologies)
        B == Backend(technologies)
        M == Mobile(technologies, file_counts)
        D == Desktop(technologies)
    IN (pc = "done" /\ ~(F /\ B)) =>
          /\ (B /\ ~M /\ ~D) => result = Ok("BackendApi")
          /\ (F /\ ~B /\ ~M /\ ~D) => result = Ok("Frontend")
          /\ M => result = Ok("Mobile")
          /\ (D /\ ~M) => result = Ok("Desktop")

C3_Witness ==
    /\ pc = "done"
    /\ ~Frontend(technologies)
    /\ Backend(technologies)
    /\ Mobile(technologies, file_counts) /\ Desktop(technologies)
    /\ result = Ok("Mobile")

\* C4: without any frontend, backend, mobile or desktop signal the
\* classification is Library exactly when total_files is less than 10, and
\* Unknown otherwise.
C4_LibraryIffFewFiles ==
    LET r == result.value
    IN (Returned /\ fs.root = "dir"
        /\ ~Frontend(r.detected_technologies) /\ ~Backend(r.detected_technologies)
        /\ ~Mobile(r.detected_technologies, r.file_counts)
        /\ ~Desktop(r.detected_technologies))
       => r.project_type = (IF r.total_files < 10 THEN "Library" ELSE "Unknown")

OnlyGoMod ==
    /\ fs.root = "dir"
    /\ fs.package_json.status = "absent"
    /\ fs.requirements_txt.status = "absent"
    /\ fs.cargo_toml.status = "absent"
    /\ fs.go_mod.status = "ok"

\* C5: a directory whose only manifest is a go.mod mentioning gin-gonic/gin,
\* with no frontend, mobile or desktop signal, is classified BackendApi.
C5_GinIsBackendApi ==
    (/\ Returned
     /\ OnlyGoMod
     /\ \E i \in 1..Len(fs.go_mod.value) : Contains(fs.go_mod.value[i], "gin-gonic/gin")
     /\ ~Mobile(<<>>, result.value.file_counts))
    => result.value.project_type = "BackendApi"

\* the tags each manifest can contribute
NodeTags ==
    {"node", "react", "vue", "angular", "svelte", "next", "nuxt", "express", "fastify",
     "koa", "nestjs", "typescript", "vite", "webpack", "jest", "vitest", "cypress",
     "playwright"}
PythonTags ==
    {"python", "django", "flask", "fastapi", "tornado", "pyramid", "pandas", "numpy",
     "tensorflow", "pytorch", "sklearn"}
RustTags == {"rust", "actix", "rocket", "axum", "warp", "tokio", "async-std", "tauri"}
GoTags == {"go", "gin", "fiber", "echo", "gorilla"}

Unusable(file) == file.status \in {"unreadable", "malformed"}

\* the tags of a manifest that parsed, none for any other
TagsOf(file, parsed) == IF file.status = "ok" THEN Range(parsed.value) ELSE {}

\* C6: in an existing root directory a manifest that cannot be read or parsed
\* contributes no tag, not even its language tag, and the call still returns
\* a result whose technology set is the union of the tags of the manifests
\* that parsed.
C6_BadManifestSkipped ==
    (pc = "done" /\ fs.root = "dir") =>
        /\ result.ok
        /\ LET tags == Range(result.value.detected_technologies)
           IN /\ Unusable(fs.package_json) => tags \cap NodeTags = {}
              /\ Unusable(fs.requirements_txt) => tags \cap PythonTags = {}
              /\ Unusable(fs.cargo_toml) => tags \cap RustTags = {}
              /\ Unusable(fs.go_mod) => tags \cap GoTags = {}
              /\ tags = TagsOf(fs.package_json, parse_package_json(fs.package_json))
                        \cup TagsOf(fs.requirements_txt,
                                    parse_requirements_txt(fs.requirements_txt))
                        \cup TagsOf(fs.cargo_toml, parse_cargo_toml(fs.cargo_toml))
                        \cup TagsOf(fs.go_mod, parse_go_mod(fs.go_mod))

C6_Witness ==
    /\ Returned
    /\ fs.root = "dir"
    /\ fs.package_json.status = "malformed"
    /\ fs.requirements_txt.status = "unreadable"
    /\ fs.cargo_toml.status = "ok"
    /\ fs.go_mod.status = "ok"
    /\ Range(result.value.detected_technologies) = {"gin", "go", "rocket", "rust", "tauri"}

Sorted(v) == \A i \in 1..(Len(v) - 1) : StrLess(v[i], v[i + 1])
NoDuplicates(v) == \A i, j \in 1..Len(v) : i # j => v[i] # v[j]

\* C7: the detected_technologies of a result are in ascending order and hold
\* no tag twice, also when several sources emit the same tag.
C7_TechnologiesSortedNoDuplicates ==
    Returned =>
        /\ Sorted(result.value.detected_technologies)
        /\ NoDuplicates(result.value.detected_technologies)

\* react in dependencies and devDependencies, with another tag in between
C7_Witness ==
    /\ Returned
    /\ fs.package_json.status = "ok"
    /\ fs.package_json.value.dependencies.keys = <<"react">>
    /\ fs.package_json.value.devDependencies.keys = <<"jest", "react">>
    /\ result.value.detected_technologies = <<"jest", "react">>

\* C8: every list returned by suggest_agents holds code-reviewer and
\* test-engineer, is in ascending order and holds no agent id twice.
C8_AgentsBaseSortedNoDuplicates ==
    (pc = "done") =>
        /\ result.ok
        /\ {"code-reviewer", "test-engineer"} \subseteq Range(result.value)
        /\ Sorted(result.value)
        /\ NoDuplicates(result.value)

\* database-designer from the BackendApi arm and from the postgres trigger
C8_Witness ==
    /\ Returned
    /\ project_type = "BackendApi"
    /\ "postgres" \in Range(technologies)
    /\ result.value = <<"api-designer", "backend-developer", "code-reviewer",
                        "database-designer", "test-engineer">>

DockerTag(t) == Contains(t, "docker")

\* C9: docker-specialist is suggested if and only if some technology tag
\* contains docker; adding such a tag never removes it.
C9_DockerSpecialistIffDockerTag ==
    (pc = "done") =>
        /\ result.ok
        /\ "docker-specialist" \in Range(result.value)
              <=> \E i \in 1..Len(technologies) : DockerTag(technologies[i])
        /\ \A t \in {"docker", "docker-compose"} :
              "docker-specialist" \in Range(result.value)
                 => "docker-specialist"
                       \in Range(suggest_agents(project_type, Append(technologies, t)))

C9_Witness ==
    /\ Returned
    /\ "docker-compose" \in Range(technologies)
    /\ "docker" \notin Range(technologies)
    /\ "docker-specialist" \in Range(result.value)

\* C10: whatever the project type, suggest_agents includes database-designer
\* when the technology list holds postgres, mysql or mongodb; express, react
\* and postgres classify as WebFullstack and suggest database-designer.
C10_DatabaseDesignerForAnyType ==
    (pc = "done") =>
        /\ Range(technologies) \cap {"postgres", "mysql", "mongodb"} # {}
              => (result.ok /\ "database-designer" \in Range(result.value))
        /\ Range(technologies) = {"express", "react", "postgres"}
              => detect_project_type(technologies, file_counts) = "WebFullstack"

C10_Witness ==
    /\ Returned
    /\ technologies = <<"express", "react", "postgres">>
    /\ project_type = "WebFullstack"
    /\ project_type = detect_project_type(technologies, file_counts)
    /\ "database-designer" \in Range(result.value)

ReactScenario ==
    /\ Returned
    /\ fs.root = "dir"
    /\ fs.package_json.status = "ok"
    /\ as_object(fs.package_json.value.dependencies)
    /\ "react" \in Range(fs.package_json.value.dependencies.keys)
    /\ ~Backend(result.value.detected_technologies)
    /\ ~Mobile(result.value.detected_technologies, result.value.file_counts)
    /\ result.value.total_files >= 10

FrontendResult ==
    /\ result.value.project_type = "Frontend"
    /\ "react" \in Range(result.value.detected_technologies)
    /\ {"code-reviewer", "test-engineer", "frontend-developer", "ux-designer"}
          \subseteq Range(result.value.suggested_agents)

\* C12 as stated: a directory with a package.json declaring react, no
\* backend-implying manifest, no swift/kotlin file or mobile tag and at least
\* 10 files is classified Frontend, with react detected and code-reviewer,
\* test-engineer, frontend-developer and ux-designer suggested.
C12_ReactIsFrontend == ReactScenario => FrontendResult

\* C12: the same for a directory that has no desktop tag (tauri, electron)
\* either.
C12_ReactWithoutDesktopIsFrontend ==
    (ReactScenario /\ ~Desktop(result.value.detected_technologies)) => FrontendResult

C12_Witness ==
    /\ ReactScenario
    /\ ~Desktop(result.value.detected_technologies)
    /\ FrontendResult
    /\ fs.cargo_toml.status = "absent"

\* a directory of 3 files without any of the four manifests
ThreeFilesNoManifest ==
    /\ Returned
    /\ fs.root = "dir"
    /\ \A name \in {"package_json", "requirements_txt", "cargo_toml", "go_mod"} :
          fs[name].status = "absent"
    /\ result.value.total_files = 3

LibraryResult ==
    /\ result.value.project_type = "Library"
    /\ result.value.detected_technologies = <<>>
    /\ {"tech-writer", "api-documenter"} \subseteq Range(result.value.suggested_agents)

\* C13 as stated: a directory with 3 files in total and none of the four
\* manifests is classified Library, with no technology and with tech-writer
\* and api-documenter suggested.
C13_ThreeFilesIsLibrary == ThreeFilesNoManifest => LibraryResult

\* C13: the same for a directory none of whose files has the extension swift
\* or kotlin.
C13_ThreeFilesWithoutMobileIsLibrary ==
    (ThreeFilesNoManifest /\ ~Mobile(<<>>, result.value.file_counts)) => LibraryResult

C13_Witness ==
    /\ ThreeFilesNoManifest
    /\ "rs" \in DOMAIN result.value.file_counts
    /\ ~Mobile(<<>>, result.value.file_counts)
    /\ LibraryResult

\* the entries below the root, and those among them that are regular files
\* at most 5 levels down
EntriesBelow(dir) == ManifestEntries(dir) \o dir.tree
RegularWithin5(dir) ==
    {i \in 1..Len(EntriesBelow(dir)) :
        EntriesBelow(dir)[i].kind = "file" /\ EntriesBelow(dir)[i].depth <= 5}

\* C14: total_files is the number of regular files at most 5 levels below
\* the root, the histogram counts those of them that have each extension, no
\* other entry adds to it, and the histogram counts sum to at most
\* total_files.
C14_WalkCounts ==
    (Returned /\ fs.root = "dir") =>
        LET es == EntriesBelow(fs)
            counted == RegularWithin5(fs)
            r == result.value
        IN /\ r.total_files = Cardinality(counted)
           /\ DOMAIN r.file_counts =
                 {es[i].extension[1] : i \in {j \in counted : es[j].extension # <<>>}}
           /\ \A x \in DOMAIN r.file_counts :
                 r.file_counts[x] = Cardinality({i \in counted : es[i].extension = <<x>>})
           /\ SumValues(r.file_counts) <= r.total_files

\* an unreadable entry, a directory, a link and a file 6 levels down come
\* before counted files, some without extension
C14_Witness ==
    /\ Returned
    /\ fs.root = "dir"
    /\ Len(fs.tree) > Len(Uncounted)
    /\ SubSeq(fs.tree, 1, Len(Uncounted)) = Uncounted
    /\ DOMAIN result.value.file_counts = {"rs", "RS", "kotlin"}
    /\ result.value.file_counts["kotlin"] = 1
    /\ SumValues(result.value.file_counts) < result.value.total_files

\* the keys of a section of package.json that is an object
KeysOf(section) == IF section.kind = "object" THEN Range(section.keys) ELSE {}

\* C15: on a well-formed package.json, parse_package_json emits a framework
\* tag exactly for the dependency and devDependency keys that equal a key of
\* the table (react gives react, @nestjs/core gives nestjs), ignores the
\* other keys, and emits node if and only if scripts defines dev or start.
C15_PackageJsonTags ==
    (pc = "parsed package.json" /\ fs.package_json.status = "ok") =>
        LET package == fs.package_json.value
            keys == KeysOf(package.dependencies) \cup KeysOf(package.devDependencies)
            tags == Range(result.value)
        IN /\ result.ok
           /\ tags \ {"node"} = {framework_map[k] : k \in keys \cap DOMAIN framework_map}
           /\ "react" \in keys => "react" \in tags
           /\ "@nestjs/core" \in keys => "nestjs" \in tags
           /\ keys \subseteq {"react-dom", "React", "Vue", "vitest-mock", "lodash"}
                 => tags \subseteq {"node"}
           /\ "node" \in tags <=> KeysOf(package.scripts) \cap {"dev", "start"} # {}

\* @nestjs/core beside a name that only resembles react, scripts without dev
\* or start
C15_Witness ==
    /\ pc = "parsed package.json"
    /\ fs.package_json.status = "ok"
    /\ KeysOf(fs.package_json.value.dependencies) = {"@nestjs/core", "react-dom"}
    /\ KeysOf(fs.package_json.value.scripts) = {"Dev", "starter"}
    /\ result = Ok(<<"nestjs">>)

\* the tags of a line of requirements.txt, worked out by hand
LineTags(line) ==
    CASE line = "Django==3.2" -> {"django"}
      [] line = "django-rest-framework" -> {"django"}
      [] line = "scikit-learn>=1.0" -> {"sklearn"}
      [] line = "requests==2.31.0" -> {}
      [] line = "  Flask  " -> {"flask"}
      [] line = "mylib==1.0 # needs flask" -> {}
      [] line = "NumPy==1.26" -> {"numpy"}

\* C16: on a readable file parse_requirements_txt emits python first and,
\* for every line, the tag of every keyword found in the text before the
\* first ==, trimmed and lowercased: django-rest-framework gives django,
\* scikit-learn gives sklearn, and capitals match as lower case.
C16_RequirementsTags ==
    (pc = "parsed requirements.txt" /\ fs.requirements_txt.status = "ok") =>
        /\ result.ok
        /\ Head(result.value) = "python"
        /\ Range(result.value) =
              {"python"} \cup UNION {LineTags(l) : l \in Range(fs.requirements_txt.value)}

C16_Witness ==
    /\ pc = "parsed requirements.txt"
    /\ fs.requirements_txt.value = <<"Django==3.2", "scikit-learn>=1.0">>
    /\ result = Ok(<<"python", "django", "sklearn">>)

\* C17: whatever the interleaving of the steps of concurrent analyses, each
\* returns the result it returns when it runs alone.
C17_ConcurrentAsAlone ==
    \A t \in Threads :
        pc[t] = "done" =>
            result[t] = ProjectAnalysisResult(AnalyzerService_analyze_project(fs[t]))

\* two invocations on different directories, both returned, and two on the
\* same directory
C17_Witness ==
    /\ \A t \in Threads : pc[t] = "done" /\ result[t].ok
    /\ \E t, u \in Threads :
          /\ fs[t] # fs[u]
          /\ result[t].value.detected_technologies # <<>>
          /\ result[u].value.detected_technologies # <<>>
          /\ result[t].value.detected_technologies # result[u].value.detected_technologies

Vocabulary == NodeTags \cup PythonTags \cup RustTags \cup GoTags

\* C18: every tag of a result is one the four parsers emit; react-native,
\* flutter, electron, postgres, mysql, mongodb, pytest and tags containing
\* docker never are, so docker-specialist is never suggested by
\* analyze_project and Mobile comes only from a swift or kotlin histogram key.
C18_VocabularyClosed ==
    Returned =>
        LET r == result.value
            tags == Range(r.detected_technologies)
        IN /\ tags \subseteq Vocabulary
           /\ tags \cap {"react-native", "flutter", "electron", "postgres", "mysql",
                         "mongodb", "pytest"} = {}
           /\ \A t \in tags : ~DockerTag(t)
           /\ "docker-specialist" \notin Range(r.suggested_agents)
           /\ r.project_type = "Mobile" => DOMAIN r.file_counts \cap {"swift", "kotlin"} # {}

\* every tag of the vocabulary detected, from manifests that also name
\* react-native, electron, mongodb, pytest, docker-compose, flutter, postgres
C18_Witness ==
    /\ Returned
    /\ fs.package_json = EveryKeyPackage
    /\ fs.requirements_txt = EveryKeywordRequirements
    /\ fs.cargo_toml = EveryKeyCargo
    /\ Range(result.value.detected_technologies) = Vocabulary
    /\ Cardinality(Vocabulary) = 42

====
